---------------------------- MODULE Spec2Model ----------------------------
(* A model of the cronuseo authorization service: the role service's       *)
(* Create, Update and PatchPermission, the resource service's Create and   *)
(* Delete, the group repository's PatchGroup and DeleteGroup, the          *)
(* permission HTTP handlers and the gRPC Check handler, together with the  *)
(* entity store, the permission cache and the Check engine they call.      *)
EXTENDS Integers, Sequences, FiniteSets, TLC

(***************************************************************************)
(* Universe of identifiers.                                                *)
(***************************************************************************)
Orgs == {"acme", "globex"}

\* The organization that owns the roles, users and groups of the model.
Acme == "acme"

\* Users that exist in Acme; UserIds also holds an id no user has.
ExistingUsers == {"alice", "carol"}

UserIds == ExistingUsers \cup {"mallory"}

Groups == {"auditors"}

Roles == {"finance"}

\* An id that names no role.
RoleIds == Roles \cup {"ghost"}

ActionIds == {"approve"}

ResourceKeys == {"invoices", "reports"}

\* mongo_entity.Permission: an (action, resource) pair.
Permission == [action : ActionIds, resource : ResourceKeys]

NoPermission == [action |-> "", resource |-> ""]

\* Longest list a request of the patch and update specifications carries.
MaxLen == 2

\* Longest list a request carries where checks run concurrently.
MaxRaceLen == 1

SeqsUpTo(S, n) == UNION {[1..k -> S] : k \in 0..n}

Range(s) == {s[k] : k \in 1..Len(s)}

VARIABLES
    resources,    \* [Orgs -> SUBSET ResourceKeys]: the resource table
    actions,      \* [Orgs -> SUBSET Permission]: actions declared on resources
    permissions,  \* [Roles -> SUBSET Permission]: Role.Permissions
    roleUsers,    \* [Roles -> SUBSET UserIds]: Role.Users
    roleGroups,   \* [Roles -> SUBSET Groups]: Role.Groups
    groupUsers,   \* [Groups -> SUBSET UserIds]: Group.Users
    tuples,       \* set of [subject, permission]: relation tuples of Acme
    cache,        \* [subject, permission] -> "miss" | "allow" | "deny"
    patch,        \* the PatchPermission call in flight, or the last one
    chk,          \* the Check call in flight, or the last one
    del,          \* the resource Delete call in flight, or the last one
    upd,          \* the last role Update call
    res,          \* the last resource Create call
    tup,          \* the last CreateTuple call
    http,         \* the last exchange of the permission HTTP handlers
    grpc,         \* the last exchange of the gRPC Check handler
    hist,         \* history: what has been revoked, what raced
    failing,      \* the repository calls that fail at present
    roleDocs,     \* sequence of role documents inserted by role Create
    crt,          \* [Callers -> the role Create call in flight, or the last]
    tenant_group, \* rows [tenant_id, group_id] of table tenant_group
    group_user,   \* [group_id, user_id] -> number of rows of table group_user
    pgr,          \* the last PatchGroup call
    dgr,          \* the last DeleteGroup call
    ctp           \* the last CheckTuple call

storeVars == <<resources, actions, permissions, roleUsers, roleGroups,
               groupUsers, tuples>>

\* The health of the store, the documents and calls of role Create, the
\* group tables and their calls, and the tuple checks.
otherVars == <<failing, roleDocs, crt, tenant_group, group_user, pgr, dgr, ctp>>

vars == <<resources, actions, permissions, roleUsers, roleGroups, groupUsers,
          tuples, cache, patch, chk, del, upd, res, tup, http, grpc, hist,
          failing, roleDocs, crt, tenant_group, group_user, pgr, dgr, ctp>>

CacheKeys == [subject : UserIds, permission : Permission]


(***************************************************************************)
(* The entity store and the permission cache.                              *)
(***************************************************************************)

\* Repository.CheckResourceActionExists: the action is declared on an
\* existing resource of the organization.
CheckResourceActionExists(org, resource, action) ==
    /\ resource \in resources[org]
    /\ [action |-> action, resource |-> resource] \in actions[org]

\* Repository.CheckUserExistById.
CheckUserExistById(org, userId) == org = Acme /\ userId \in ExistingUsers

\* Repository.CheckUserAlreadyAssignToRoleById.
CheckUserAlreadyAssignToRoleById(org, roleId, userId) ==
    org = Acme /\ roleId \in Roles /\ userId \in roleUsers[roleId]

\* The repository calls whose failure the services below may meet.
StoreCalls ==
    {"CheckRoleExistsByIdentifier", "CheckUserExistById",
     "CheckUserAlreadyAssignToRoleById", "CheckResourceActionExists"}

\* `exists, _ := s.repo.<call>(...)`: what the service keeps of an existence
\* query. A call that fails returns false beside its error, and the service
\* assigns the error to _.
Answered(call, answer) == call \notin failing /\ answer

\* Repository.PatchPermission: one write that adds p.AddedPermission to the
\* role's permission set and removes p.RemovedPermission from it.
RepoPatchPermission(perms, p) ==
    (perms \cup Range(p.AddedPermission)) \ Range(p.RemovedPermission)

\* Repository.Update: one write that adds u.AddedUsers to the role's users and
\* removes u.RemovedUser from them.
RepoUpdate(users, u) == (users \cup Range(u.AddedUsers)) \ Range(u.RemovedUser)

\* The users that hold the role, directly or through one of its groups, when
\* the role's users are `users`.
MembersOf(users, r) ==
    users[r] \cup UNION {groupUsers[g] : g \in roleGroups[r]}

RoleMembers(r) == MembersOf(roleUsers, r)

\* The decision of the permission resolver on a store with the given role
\* permissions, role users and tuples.
DecisionOn(perms, users, tups, s, p) ==
    \/ \E r \in Roles : s \in MembersOf(users, r) /\ p \in perms[r]
    \/ [subject |-> s, permission |-> p] \in tups

Decision(s, p) == DecisionOn(permissions, roleUsers, tuples, s, p)

Verdict(b) == IF b THEN "allow" ELSE "deny"

\* The entries of cache c, among those of the given subjects and permissions,
\* that hold a decision the given store does not give.
StaleEntries(c, perms, users, tups, subjects, ps) ==
    {k \in CacheKeys :
        /\ k.subject \in subjects
        /\ k.permission \in ps
        /\ c[k] # "miss"
        /\ c[k] # Verdict(DecisionOn(perms, users, tups, k.subject, k.permission))}

\* (s, p) is granted by role r and by nothing else.
OnlyGrantPath(s, r, p) ==
    /\ s \in RoleMembers(r)
    /\ p \in permissions[r]
    /\ [subject |-> s, permission |-> p] \notin tuples
    /\ \A q \in Roles \ {r} : ~(s \in RoleMembers(q) /\ p \in permissions[q])

HistReset == [revoked |-> {}, afterRevoke |-> FALSE, quiet |-> FALSE]

(***************************************************************************)
(* role.service.PatchPermission                                            *)
(***************************************************************************)
\* The requests that name permissions of P in lists of at most n.
PatchRolePermissionRequest(P, n) ==
    [AddedPermission : SeqsUpTo(P, n), RemovedPermission : SeqsUpTo(P, n)]

PatchIdle ==
    [pc |-> "idle", role |-> "", req |-> [AddedPermission |-> <<>>,
                                          RemovedPermission |-> <<>>],
     i |-> 0, err |-> "", errPermission |-> NoPermission,
     before |-> {}, stale |-> {}, faulted |-> FALSE]

\* The argument the service hands to the repository: the added permissions of
\* the request; RemovedPermission is left at its zero value.
PatchRolePermission(req) ==
    [AddedPermission |-> req.AddedPermission, RemovedPermission |-> <<>>]

\* The call is received.
PatchStart(role, req) ==
    /\ patch.pc \in {"idle", "done"}
    /\ patch' = [PatchIdle EXCEPT
                    !.pc = IF req.AddedPermission = <<>> THEN "write"
                           ELSE "validate",
                    !.role = role, !.req = req, !.i = 1,
                    !.before = permissions[role]]
    /\ hist' = HistReset
    /\ UNCHANGED <<storeVars, cache, chk, del, upd, res, tup, http, grpc,
                   otherVars>>

\* PatchValidate with each permission written as soon as it is found declared.
PatchValidateEager ==
    /\ patch.pc = "validate"
    /\ LET permission == patch.req.AddedPermission[patch.i]
           exists == Answered("CheckResourceActionExists",
                              CheckResourceActionExists(Acme,
                                                        permission.resource,
                                                        permission.action))
       IN  /\ patch' = IF ~exists
                       THEN [patch EXCEPT !.pc = "done", !.err = "InvalidInput",
                                          !.errPermission = permission,
                                          !.faulted =
                                             "CheckResourceActionExists"
                                                \in failing]
                       ELSE IF patch.i = Len(patch.req.AddedPermission)
                       THEN [patch EXCEPT !.pc = "write"]
                       ELSE [patch EXCEPT !.i = patch.i + 1]
           /\ permissions' = IF exists
                             THEN [permissions EXCEPT ![patch.role] =
                                      @ \cup {permission}]
                             ELSE permissions
    /\ UNCHANGED <<resources, actions, roleUsers, roleGroups, groupUsers,
                   tuples, cache, chk, del, upd, res, tup, http, grpc, hist,
                   otherVars>>

\* One turn of the loop over req.AddedPermission.
PatchValidate ==
    /\ patch.pc = "validate"
    /\ LET permission == patch.req.AddedPermission[patch.i]
           exists == Answered("CheckResourceActionExists",
                              CheckResourceActionExists(Acme,
                                                        permission.resource,
                                                        permission.action))
       IN  patch' = IF ~exists
                    THEN [patch EXCEPT !.pc = "done", !.err = "InvalidInput",
                                       !.errPermission = permission,
                                       !.faulted = "CheckResourceActionExists"
                                                      \in failing]
                    ELSE IF patch.i = Len(patch.req.AddedPermission)
                    THEN [patch EXCEPT !.pc = "write"]
                    ELSE [patch EXCEPT !.i = patch.i + 1]
    /\ UNCHANGED <<storeVars, cache, chk, del, upd, res, tup, http, grpc, hist,
                   otherVars>>

\* The repository write, after which the call returns nil.
PatchWrite ==
    /\ patch.pc = "write"
    /\ LET written == [permissions EXCEPT ![patch.role] =
                         RepoPatchPermission(@, PatchRolePermission(patch.req))]
           touched == Range(patch.req.AddedPermission)
                        \cup Range(patch.req.RemovedPermission)
       IN  /\ permissions' = written
           /\ patch' = [patch EXCEPT
                           !.pc = "done", !.err = "nil",
                           !.stale = StaleEntries(cache, written, roleUsers,
                                                  tuples,
                                                  RoleMembers(patch.role),
                                                  touched)]
           /\ hist' = [HistReset EXCEPT !.revoked =
                         {k \in CacheKeys :
                            /\ k.permission \in Range(patch.req.RemovedPermission)
                            /\ OnlyGrantPath(k.subject, patch.role,
                                             k.permission)}]
    /\ UNCHANGED <<resources, actions, roleUsers, roleGroups, groupUsers,
                   tuples, cache, chk, del, upd, res, tup, http, grpc,
                   otherVars>>

(***************************************************************************)
(* role.service.Update                                                     *)
(***************************************************************************)
\* The requests that name users of U in lists of at most n.
UpdateRoleRequest(U, n) ==
    [AddedUsers : SeqsUpTo(U, n), RemovedUser : SeqsUpTo(U, n)]

UpdNone ==
    [role |-> "", req |-> [AddedUsers |-> <<>>, RemovedUser |-> <<>>],
     err |-> "", before |-> {}, stale |-> {}, again |-> FALSE,
     faulted |-> FALSE]

\* UpdateRole with the two tests on already_added exchanged.
UpdateRoleInverted(id, req) ==
    [AddedUsers |-> SelectSeq(req.AddedUsers, LAMBDA u :
                       Answered("CheckUserAlreadyAssignToRoleById",
                           CheckUserAlreadyAssignToRoleById(Acme, id, u))),
     RemovedUser |-> SelectSeq(req.RemovedUser, LAMBDA u :
                       ~Answered("CheckUserAlreadyAssignToRoleById",
                           CheckUserAlreadyAssignToRoleById(Acme, id, u)))]

\* The argument the service hands to the repository: the added users not yet
\* assigned to the role and the removed users assigned to it.
UpdateRole(id, req) ==
    [AddedUsers |-> SelectSeq(req.AddedUsers, LAMBDA u :
                       ~Answered("CheckUserAlreadyAssignToRoleById",
                           CheckUserAlreadyAssignToRoleById(Acme, id, u))),
     RemovedUser |-> SelectSeq(req.RemovedUser, LAMBDA u :
                       Answered("CheckUserAlreadyAssignToRoleById",
                           CheckUserAlreadyAssignToRoleById(Acme, id, u)))]

\* The whole call: Get, the existence checks, the repository write, Get. The
\* errors of the existence checks are assigned to _: a user whose check fails
\* counts as missing, and as not assigned to the role.
Update(id, req) ==
    /\ IF id \notin Roles
       THEN /\ upd' = [UpdNone EXCEPT !.role = id, !.req = req,
                                      !.err = "NotFound"]
            /\ hist' = hist
            /\ roleUsers' = roleUsers
       ELSE IF \E u \in Range(req.AddedUsers) \cup Range(req.RemovedUser) :
                  ~Answered("CheckUserExistById", CheckUserExistById(Acme, u))
       THEN /\ upd' = [UpdNone EXCEPT !.role = id, !.req = req,
                                      !.err = "InvalidInput",
                                      !.before = roleUsers[id],
                                      !.faulted = "CheckUserExistById"
                                                     \in failing]
            /\ hist' = hist
            /\ roleUsers' = roleUsers
       ELSE LET written == [roleUsers EXCEPT ![id] =
                               RepoUpdate(@, UpdateRole(id, req))]
                touched == Range(req.AddedUsers) \cup Range(req.RemovedUser)
            IN  /\ roleUsers' = written
                /\ upd' = [role |-> id, req |-> req, err |-> "nil",
                           before |-> roleUsers[id],
                           again |-> upd.err = "nil" /\ upd.role = id
                                        /\ upd.req = req,
                           faulted |->
                              /\ "CheckUserAlreadyAssignToRoleById" \in failing
                              /\ touched # {},
                           stale |-> StaleEntries(cache, permissions, written,
                                                  tuples, touched, Permission)]
                /\ hist' = [HistReset EXCEPT !.revoked =
                              {k \in CacheKeys :
                                 /\ k.subject \in Range(req.RemovedUser)
                                 /\ OnlyGrantPath(k.subject, id, k.permission)
                                 /\ k.subject \notin MembersOf(written, id)}]
    /\ UNCHANGED <<resources, actions, permissions, roleGroups, groupUsers,
                   tuples, cache, patch, chk, del, res, tup, http, grpc,
                   otherVars>>

(***************************************************************************)
(* The Check engine, the permission cache and CreateTuple.                 *)
(***************************************************************************)
ChkIdle ==
    [pc |-> "idle", subject |-> "", permission |-> NoPermission,
     decision |-> "", result |-> "", err |-> ""]

\* The call is received: the pair and the subject are validated and the cache
\* is looked up; a hit is the answer.
CheckStart(s, p) ==
    /\ chk.pc \in {"idle", "done"}
    /\ LET k == [subject |-> s, permission |-> p]
           call == [ChkIdle EXCEPT !.subject = s, !.permission = p]
       IN  /\ chk' = IF ~CheckResourceActionExists(Acme, p.resource, p.action)
                     THEN [call EXCEPT !.pc = "done", !.err = "InvalidInput"]
                     ELSE IF ~CheckUserExistById(Acme, s)
                     THEN [call EXCEPT !.pc = "done", !.err = "NotFound"]
                     ELSE IF cache[k] # "miss"
                     THEN [call EXCEPT !.pc = "done", !.result = cache[k]]
                     ELSE [call EXCEPT !.pc = "resolve"]
           /\ hist' = [hist EXCEPT !.afterRevoke = k \in hist.revoked,
                                   !.quiet = TRUE]
    /\ UNCHANGED <<storeVars, cache, patch, del, upd, res, tup, http, grpc,
                   otherVars>>

\* On a miss the permission resolver reads the store.
CheckResolve ==
    /\ chk.pc = "resolve"
    /\ chk' = [chk EXCEPT !.pc = "populate",
                          !.decision = Verdict(Decision(chk.subject,
                                                        chk.permission))]
    /\ UNCHANGED <<storeVars, cache, patch, del, upd, res, tup, http, grpc, hist,
                   otherVars>>

\* The decision is cached and returned.
CheckPopulate ==
    /\ chk.pc = "populate"
    /\ cache' = [cache EXCEPT ![[subject |-> chk.subject,
                                 permission |-> chk.permission]] = chk.decision]
    /\ chk' = [chk EXCEPT !.pc = "done", !.result = chk.decision]
    /\ UNCHANGED <<storeVars, patch, del, upd, res, tup, http, grpc, hist,
                   otherVars>>

TupNone ==
    [subject |-> "", permission |-> NoPermission, err |-> "", before |-> {}]

\* CreateTuple: a recorded tuple is refused; a new one is inserted and the
\* cached decision for exactly that subject and pair is invalidated.
CreateTuple(s, p) ==
    LET k == [subject |-> s, permission |-> p]
    IN  /\ IF k \in tuples
           THEN /\ tup' = [subject |-> s, permission |-> p,
                           err |-> "AlreadyExists", before |-> tuples]
                /\ UNCHANGED <<tuples, cache, hist>>
           ELSE /\ tup' = [subject |-> s, permission |-> p, err |-> "nil",
                           before |-> tuples]
                /\ tuples' = tuples \cup {k}
                /\ cache' = [cache EXCEPT ![k] = "miss"]
                /\ hist' = HistReset
        /\ UNCHANGED <<resources, actions, permissions, roleUsers, roleGroups,
                       groupUsers, patch, chk, del, upd, res, http, grpc,
                   otherVars>>

(***************************************************************************)
(* resource.service.Create and Delete                                      *)
(***************************************************************************)
ResNone == [org |-> "", key |-> "", err |-> "", existed |-> FALSE]

DelIdle == [pc |-> "idle", org |-> "", key |-> "", err |-> ""]

\* Repository.ExistByKey, which the service calls with the key alone: a
\* resource of that key exists, in whichever organization.
ExistByKey(key) == \E o \in Orgs : key \in resources[o]

\* The whole of Create: Validate, ExistByKey, the repository Create, Get.
ResourceCreate(org, key) ==
    /\ LET call == [org |-> org, key |-> key, err |-> "",
                    existed |-> key \in resources[org]]
       IN  IF key = ""
           THEN /\ res' = [call EXCEPT !.err = "InvalidInput"]
                /\ resources' = resources
           ELSE IF ExistByKey(key)
           THEN /\ res' = [call EXCEPT !.err = "AlreadyExists"]
                /\ resources' = resources
           ELSE /\ res' = [call EXCEPT !.err = "nil"]
                /\ resources' = [resources EXCEPT ![org] = @ \cup {key}]
    /\ UNCHANGED <<actions, permissions, roleUsers, roleGroups, groupUsers,
                   tuples, cache, patch, chk, del, upd, tup, http, grpc, hist,
                   otherVars>>

\* Delete is received: Get answers whether the resource exists.
ResourceDeleteStart(org, key) ==
    /\ del.pc \in {"idle", "done"}
    /\ del' = IF key \in resources[org]
              THEN [pc |-> "actions", org |-> org, key |-> key, err |-> ""]
              ELSE [pc |-> "done", org |-> org, key |-> key,
                    err |-> "NotFound"]
    /\ UNCHANGED <<storeVars, cache, patch, chk, upd, res, tup, http, grpc,
                   hist,
                   otherVars>>

\* DeleteResource, first statement: DeleteAllResourceActions.
DeleteAllResourceActions ==
    /\ del.pc = "actions"
    /\ actions' = [actions EXCEPT ![del.org] =
                      {p \in @ : p.resource # del.key}]
    /\ del' = [del EXCEPT !.pc = "roles"]
    /\ UNCHANGED <<resources, permissions, roleUsers, roleGroups, groupUsers,
                   tuples, cache, patch, chk, upd, res, tup, http, grpc, hist,
                   otherVars>>

\* DeleteResource, second statement: DeleteAllResourceRoles, which takes the
\* resource out of every role of its organization.
DeleteAllResourceRoles ==
    /\ del.pc = "roles"
    /\ permissions' = IF del.org = Acme
                      THEN [r \in Roles |->
                              {p \in permissions[r] : p.resource # del.key}]
                      ELSE permissions
    /\ del' = [del EXCEPT !.pc = "resource"]
    /\ hist' = HistReset
    /\ UNCHANGED <<resources, actions, roleUsers, roleGroups, groupUsers,
                   tuples, cache, patch, chk, upd, res, tup, http, grpc,
                   otherVars>>

\* DeleteResource, third statement: the resource row is deleted; Delete
\* returns.
DeleteResource ==
    /\ del.pc = "resource"
    /\ resources' = [resources EXCEPT ![del.org] = @ \ {del.key}]
    /\ del' = [del EXCEPT !.pc = "done", !.err = "nil"]
    /\ UNCHANGED <<actions, permissions, roleUsers, roleGroups, groupUsers,
                   tuples, cache, patch, chk, upd, res, tup, http, grpc, hist,
                   otherVars>>

(***************************************************************************)
(* The permission HTTP handlers and the gRPC Check handler.                *)
(***************************************************************************)
\* What a service call may return.
ServiceErrors ==
    {"nil", "InvalidInput", "NotFound", "AlreadyExists", "Forbidden",
     "Internal"}

\* The values of the incoming context of a gRPC call: no metadata, metadata
\* without an API_KEY entry, metadata with one.
Metadata == {"absent", "nokey", "key"}

StatusOK == 200

StatusBadRequest == 400

\* util.HandleError: the transport status of an engine error.
HandleError(err) ==
    CASE err = "InvalidInput" -> StatusBadRequest
      [] err = "Forbidden" -> 403
      [] OTHER -> 500

HttpNone == [handler |-> "", bound |-> FALSE, err |-> "", status |-> 0]

GrpcNone == [md |-> "", called |-> FALSE, err |-> "", outcome |-> ""]

\* The shape shared by the handlers create and checkbyusername: Bind, the
\* service call, HandleError on an error, 200 otherwise.
Respond(handler, bound, err) ==
    /\ http' = IF ~bound
               THEN [handler |-> handler, bound |-> FALSE, err |-> "",
                     status |-> StatusBadRequest]
               ELSE [handler |-> handler, bound |-> TRUE, err |-> err,
                     status |-> IF err # "nil" THEN HandleError(err)
                                ELSE StatusOK]
    /\ UNCHANGED <<storeVars, cache, patch, chk, del, upd, res, tup, grpc, hist,
                   otherVars>>

\* permission.create, for any outcome of Bind and of service.CreateTuple.
create(bound, err) == Respond("create", bound, err)

\* permission.checkbyusername, for any outcome of Bind and of
\* service.CheckByUsername.
checkbyusername(bound, err) == Respond("checkbyusername", bound, err)

\* permission.patchPermissions, for any outcome of Bind and of
\* service.PatchPermissions: the error of the service is assigned to _.
patchPermissions(bound, err) ==
    /\ http' = IF ~bound
               THEN [handler |-> "patchPermissions", bound |-> FALSE,
                     err |-> "", status |-> StatusBadRequest]
               ELSE [handler |-> "patchPermissions", bound |-> TRUE,
                     err |-> err, status |-> StatusOK]
    /\ UNCHANGED <<storeVars, cache, patch, chk, del, upd, res, tup, grpc, hist,
                   otherVars>>

\* grpcService.Check, for any incoming context and any outcome of
\* service.Check: md.Get("API_KEY")[0] indexes an empty slice when the
\* metadata holds no API_KEY, and the handler panics.
grpcCheck(md, err, allow) ==
    /\ grpc' = IF md = "absent"
               THEN [md |-> md, called |-> FALSE,
                     err |-> "missing metadata from request",
                     outcome |-> "error"]
               ELSE IF md = "nokey"
               THEN [md |-> md, called |-> FALSE, err |-> "",
                     outcome |-> "panic"]
               ELSE IF err # "nil"
               THEN [md |-> md, called |-> TRUE, err |-> err,
                     outcome |-> "error"]
               ELSE [md |-> md, called |-> TRUE, err |-> "nil",
                     outcome |-> Verdict(allow)]
    /\ UNCHANGED <<storeVars, cache, patch, chk, del, upd, res, tup, http, hist,
                   otherVars>>

(***************************************************************************)
(* role.service.Create                                                     *)
(***************************************************************************)
\* The clients that call Create, each one call at a time.
Callers == {"c1", "c2"}

\* Role identifiers; "finance" is the identifier of the role of Roles.
Identifiers == {"finance", "ops"}

\* Most role documents Create inserts in one behaviour.
MaxRoles == 3

\* The requests that name users of U in lists of at most n; the empty
\* Identifier is the one Validate refuses.
CreateRoleRequest(U, n) ==
    [Identifier : Identifiers \cup {""}, Users : SeqsUpTo(U, n)]

CrtIdle ==
    [pc |-> "idle", req |-> [Identifier |-> "", Users |-> <<>>], err |-> "",
     before |-> <<>>, taken |-> FALSE, faulted |-> FALSE]

\* The role documents that carry the identifier.
DocsOf(identifier) ==
    {k \in 1..Len(roleDocs) : roleDocs[k].Identifier = identifier}

\* Repository.CheckRoleExistsByIdentifier.
CheckRoleExistsByIdentifier(org, identifier) ==
    org = Acme /\ (identifier \in Roles \/ DocsOf(identifier) # {})

\* The Create calls in flight.
InFlight == {c \in Callers : crt[c].pc \notin {"idle", "done"}}

\* The call is received and req.Validate() runs.
CreateStart(c, req) ==
    /\ crt[c].pc \in {"idle", "done"}
    /\ Len(roleDocs) + Cardinality(InFlight) < MaxRoles
    /\ crt' = [crt EXCEPT ![c] =
                  [CrtIdle EXCEPT
                      !.req = req, !.before = roleDocs,
                      !.taken = CheckRoleExistsByIdentifier(Acme,
                                                            req.Identifier),
                      !.pc = IF req.Identifier = "" THEN "done"
                             ELSE "identifier",
                      !.err = IF req.Identifier = "" THEN "InvalidInput"
                              ELSE ""]]
    /\ UNCHANGED <<storeVars, cache, patch, chk, del, upd, res, tup, http, grpc,
                   hist, failing, roleDocs, tenant_group, group_user, pgr, dgr,
                   ctp>>

\* `exists, _ := s.repo.CheckRoleExistsByIdentifier(...)` and its test.
CreateCheckIdentifier(c) ==
    /\ crt[c].pc = "identifier"
    /\ LET exists == Answered("CheckRoleExistsByIdentifier",
                         CheckRoleExistsByIdentifier(Acme,
                                                     crt[c].req.Identifier))
       IN  crt' = [crt EXCEPT ![c] =
                     IF exists
                     THEN [@ EXCEPT !.pc = "done", !.err = "AlreadyExists"]
                     ELSE [@ EXCEPT !.pc = "users",
                                    !.faulted = "CheckRoleExistsByIdentifier"
                                                   \in failing]]
    /\ UNCHANGED <<storeVars, cache, patch, chk, del, upd, res, tup, http, grpc,
                   hist, failing, roleDocs, tenant_group, group_user, pgr, dgr,
                   ctp>>

\* CreateCheckUsers without the test on exists: every user passes.
CreateCheckUsersTrusting(c) ==
    /\ crt[c].pc = "users"
    /\ crt' = [crt EXCEPT ![c] = [@ EXCEPT !.pc = "write"]]
    /\ UNCHANGED <<storeVars, cache, patch, chk, del, upd, res, tup, http, grpc,
                   hist, failing, roleDocs, tenant_group, group_user, pgr, dgr,
                   ctp>>

\* The loop over req.Users: the first user whose check does not answer true
\* ends the call with InvalidInput.
CreateCheckUsers(c) ==
    /\ crt[c].pc = "users"
    /\ LET missing == \E u \in Range(crt[c].req.Users) :
                         ~Answered("CheckUserExistById",
                                   CheckUserExistById(Acme, u))
       IN  crt' = [crt EXCEPT ![c] =
                     IF missing
                     THEN [@ EXCEPT !.pc = "done", !.err = "InvalidInput",
                                    !.faulted = @ \/ "CheckUserExistById"
                                                       \in failing]
                     ELSE [@ EXCEPT !.pc = "write"]]
    /\ UNCHANGED <<storeVars, cache, patch, chk, del, upd, res, tup, http, grpc,
                   hist, failing, roleDocs, tenant_group, group_user, pgr, dgr,
                   ctp>>

\* s.repo.Create inserts the role document under a fresh id, and Get returns
\* it.
CreateWrite(c) ==
    /\ crt[c].pc = "write"
    /\ roleDocs' = Append(roleDocs, [Identifier |-> crt[c].req.Identifier,
                                     Users |-> crt[c].req.Users])
    /\ crt' = [crt EXCEPT ![c] = [@ EXCEPT !.pc = "done", !.err = "nil"]]
    /\ UNCHANGED <<storeVars, cache, patch, chk, del, upd, res, tup, http, grpc,
                   hist, failing, tenant_group, group_user, pgr, dgr, ctp>>

\* The store starts or stops failing the calls of one kind.
StoreFault(f) ==
    /\ failing' = f
    /\ failing' # failing
    /\ UNCHANGED <<storeVars, cache, patch, chk, del, upd, res, tup, http, grpc,
                   hist, roleDocs, crt, tenant_group, group_user, pgr, dgr, ctp>>

(***************************************************************************)
(* CheckTuple and the handlers permission.check and permission.delete.     *)
(***************************************************************************)
CtpNone ==
    [called |-> FALSE, handler |-> "", subject |-> "",
     permission |-> NoPermission, exists |-> FALSE, had |-> FALSE,
     allow |-> FALSE]

\* Service.CheckTuple: the presence of the tuple when exists is true, its
\* absence when exists is false.
CheckTuple(s, p, exists) ==
    ([subject |-> s, permission |-> p] \in tuples) <=> exists

\* The shape shared by the handlers check and delete: Bind, CheckTuple with
\* the handler's value of exists, and 200 with the answer.
CheckTupleHandler(handler, exists, bound, s, p) ==
    /\ http' = IF ~bound
               THEN [handler |-> handler, bound |-> FALSE, err |-> "",
                     status |-> StatusBadRequest]
               ELSE [handler |-> handler, bound |-> TRUE, err |-> "nil",
                     status |-> StatusOK]
    /\ ctp' = IF ~bound
              THEN ctp
              ELSE [called |-> TRUE, handler |-> handler, subject |-> s,
                    permission |-> p, exists |-> exists,
                    had |-> [subject |-> s, permission |-> p] \in tuples,
                    allow |-> CheckTuple(s, p, exists)]
    /\ UNCHANGED <<storeVars, cache, patch, chk, del, upd, res, tup, grpc, hist,
                   failing, roleDocs, crt, tenant_group, group_user, pgr, dgr>>

\* permission.check: CheckTuple with exists = true.
check(bound, s, p) == CheckTupleHandler("check", TRUE, bound, s, p)

\* permission.delete with the value of exists that check passes.
deleteAsCheck(bound, s, p) == CheckTupleHandler("delete", TRUE, bound, s, p)

\* permission.delete: CheckTuple with exists = false.
delete(bound, s, p) == CheckTupleHandler("delete", FALSE, bound, s, p)

(***************************************************************************)
(* repositories: the tables tenant_group and group_user, PatchGroup and    *)
(* DeleteGroup.                                                            *)
(***************************************************************************)
GroupIds == {"g1", "g2"}

\* The users of the tenant globex.
GlobexUsers == {"dave"}

\* The user ids a row of group_user may hold; "mallory" is the id of no
\* user of any tenant.
SqlUserIds == UserIds \cup GlobexUsers

\* The users a patch names.
PatchUsers == {"alice", "mallory"}

\* Most operations of a patch, and most users of an operation.
MaxOps == 2

MaxOpUsers == 1

\* models.GroupPatchRequest: a list of operations, each with a list of users.
GroupPatchRequest ==
    [Operations : SeqsUpTo([Operation : {"add", "remove"},
                            Users : SeqsUpTo(PatchUsers, MaxOpUsers)],
                           MaxOps)]

PgrNone ==
    [called |-> FALSE, group_id |-> "", req |-> [Operations |-> <<>>],
     err |-> "", before |-> {}, after |-> <<>>]

DgrNone ==
    [called |-> FALSE, tenant_id |-> "", id |-> "", err |-> "",
     beforeGroups |-> {}, afterGroups |-> {}, beforeUsers |-> <<>>,
     afterUsers |-> <<>>]

\* IsUserInGroup: a query on config.DB, outside any transaction; it reads
\* the committed rows of group_user.
IsUserInGroup(groupId, userId) == group_user[<<groupId, userId>>] > 0

\* The loop over operation.Users: rows are the rows the transaction sees,
\* exists is read from the committed table. An add not skipped inserts one
\* row; a remove not skipped deletes every row of the user in the group.
RECURSIVE PatchUsersLoop(_, _, _, _)
PatchUsersLoop(rows, group_id, operation, users) ==
    IF users = <<>>
    THEN rows
    ELSE LET user == Head(users)
             exists == IsUserInGroup(group_id, user)
             next == IF operation = "add" /\ ~exists
                     THEN [rows EXCEPT ![<<group_id, user>>] = @ + 1]
                     ELSE IF operation = "remove" /\ exists
                     THEN [rows EXCEPT ![<<group_id, user>>] = 0]
                     ELSE rows
         IN  PatchUsersLoop(next, group_id, operation, Tail(users))

\* The loop over groupPatch.Operations.
RECURSIVE PatchOperations(_, _, _)
PatchOperations(rows, group_id, operations) ==
    IF operations = <<>>
    THEN rows
    ELSE PatchOperations(PatchUsersLoop(rows, group_id,
                                        Head(operations).Operation,
                                        Head(operations).Users),
                         group_id, Tail(operations))

\* The users with a row in the group.
GroupMembers(rows, g) == {u \in SqlUserIds : rows[<<g, u>>] > 0}

\* PatchGroup: Begin, the operations, Commit.
PatchGroup(group_id, groupPatch) ==
    /\ group_user' = PatchOperations(group_user, group_id,
                                     groupPatch.Operations)
    /\ pgr' = [called |-> TRUE, group_id |-> group_id, req |-> groupPatch,
               err |-> "nil", before |-> GroupMembers(group_user, group_id),
               after |-> [u \in SqlUserIds |-> group_user'[<<group_id, u>>]]]
    /\ UNCHANGED <<storeVars, cache, patch, chk, del, upd, res, tup, http, grpc,
                   hist, failing, roleDocs, crt, tenant_group, dgr, ctp>>

\* DeleteGroup: Begin, the rows of group_user with the group id are deleted,
\* the row of tenant_group with the tenant and the group id is deleted,
\* Commit.
DeleteGroup(tenant_id, id) ==
    /\ group_user' = [k \in DOMAIN group_user |->
                         IF k[1] = id THEN 0 ELSE group_user[k]]
    /\ tenant_group' = tenant_group
                          \ {[tenant_id |-> tenant_id, group_id |-> id]}
    /\ dgr' = [called |-> TRUE, tenant_id |-> tenant_id, id |-> id,
               err |-> "nil", beforeGroups |-> tenant_group,
               afterGroups |-> tenant_group',
               beforeUsers |-> [u \in SqlUserIds |-> group_user[<<id, u>>]],
               afterUsers |-> [u \in SqlUserIds |-> group_user'[<<id, u>>]]]
    /\ UNCHANGED <<storeVars, cache, patch, chk, del, upd, res, tup, http, grpc,
                   hist, failing, roleDocs, crt, pgr, ctp>>

(***************************************************************************)
(* Initial states.                                                         *)
(***************************************************************************)
\* No call has been made yet and the cache is empty.
InitCalls ==
    /\ cache = [k \in CacheKeys |-> "miss"]
    /\ patch = PatchIdle
    /\ chk = ChkIdle
    /\ del = DelIdle
    /\ upd = UpdNone
    /\ res = ResNone
    /\ tup = TupNone
    /\ http = HttpNone
    /\ grpc = GrpcNone
    /\ hist = HistReset
    /\ crt = [c \in Callers |-> CrtIdle]
    /\ pgr = PgrNone
    /\ dgr = DgrNone
    /\ ctp = CtpNone

\* The store answers every call, Create has inserted no role, and each
\* tenant holds one group: g1 of acme with carol, g2 of globex with dave.
InitOther ==
    /\ failing = {}
    /\ roleDocs = <<>>
    /\ tenant_group = {[tenant_id |-> "acme", group_id |-> "g1"],
                       [tenant_id |-> "globex", group_id |-> "g2"]}
    /\ group_user = [k \in GroupIds \X SqlUserIds |->
                        IF k \in {<<"g1", "carol">>, <<"g2", "dave">>}
                        THEN 1 ELSE 0]

\* The memberships of the scenarios of the specification: alice holds the
\* role finance directly, carol through the group auditors.
InitMembers ==
    /\ roleUsers = [r \in Roles |-> {"alice"}]
    /\ roleGroups = [r \in Roles |-> {"auditors"}]
    /\ groupUsers = [g \in Groups |-> {"carol"}]
    /\ tuples = {}

\* Acme holds both resources with any set of declared actions, and the role
\* holds any of the declared permissions.
InitPatch ==
    /\ resources = [o \in Orgs |-> IF o = Acme THEN ResourceKeys ELSE {}]
    /\ actions \in [Orgs -> SUBSET Permission]
    /\ actions["globex"] = {}
    /\ permissions \in [Roles -> SUBSET actions[Acme]]
    /\ InitMembers
    /\ InitCalls
    /\ InitOther

NextPatch ==
    \/ \E r \in Roles, req \in PatchRolePermissionRequest(Permission, MaxLen) :
          PatchStart(r, req)
    \/ PatchValidate
    \/ PatchWrite

SpecPatch == InitPatch /\ [][NextPatch]_vars

\* Acme's role holds any set of existing users.
InitUpdate ==
    /\ resources = [o \in Orgs |-> IF o = Acme THEN ResourceKeys ELSE {}]
    /\ actions = [o \in Orgs |-> IF o = Acme THEN Permission ELSE {}]
    /\ permissions = [r \in Roles |-> {}]
    /\ roleUsers \in [Roles -> SUBSET ExistingUsers]
    /\ roleGroups = [r \in Roles |-> {"auditors"}]
    /\ groupUsers = [g \in Groups |-> {"carol"}]
    /\ tuples = {}
    /\ InitCalls
    /\ InitOther

\* A caller applies one request and may apply the same request again.
NextUpdate ==
    \E id \in RoleIds, req \in UpdateRoleRequest(UserIds, MaxLen) :
        /\ upd.role = "" \/ (upd.role = id /\ upd.req = req)
        /\ Update(id, req)

SpecUpdate == InitUpdate /\ [][NextUpdate]_vars

\* The scenario of the specification: (approve, invoices) is the declared
\* pair of Acme; the role may hold it.
InitCache ==
    /\ resources = [o \in Orgs |-> IF o = Acme THEN ResourceKeys ELSE {}]
    /\ actions = [o \in Orgs |->
                    IF o = Acme
                    THEN {[action |-> "approve", resource |-> "invoices"]}
                    ELSE {}]
    /\ permissions \in [Roles -> SUBSET actions[Acme]]
    /\ InitMembers
    /\ InitCalls
    /\ InitOther

\* The user whose membership and tuples change while checks run.
RaceUsers == {"alice"}

NextCache ==
    \/ \E s \in ExistingUsers, p \in actions[Acme] : CheckStart(s, p)
    \/ CheckResolve
    \/ CheckPopulate
    \/ \E r \in Roles,
          req \in PatchRolePermissionRequest(actions[Acme], MaxRaceLen) :
          PatchStart(r, req)
    \/ PatchValidate
    \/ PatchWrite
    \/ \E id \in Roles, req \in UpdateRoleRequest(RaceUsers, MaxRaceLen) :
          Update(id, req)
    \/ \E s \in RaceUsers, p \in actions[Acme] : CreateTuple(s, p)

SpecCache == InitCache /\ [][NextCache]_vars

\* Acme holds both resources with any set of declared actions and the role
\* any of the declared permissions; globex holds no resource yet.
InitResource == InitPatch

NextResource ==
    \/ \E o \in Orgs, k \in ResourceKeys \cup {""} : ResourceCreate(o, k)
    \/ \E o \in Orgs, k \in ResourceKeys : ResourceDeleteStart(o, k)
    \/ DeleteAllResourceActions
    \/ DeleteAllResourceRoles
    \/ DeleteResource
    \/ \E r \in Roles,
          req \in PatchRolePermissionRequest(Permission, MaxRaceLen) :
          PatchStart(r, req)
    \/ PatchValidate
    \/ PatchWrite

SpecResource == InitResource /\ [][NextResource]_vars

InitTransport == InitCache

NextTransport ==
    \/ \E bound \in BOOLEAN, err \in ServiceErrors : create(bound, err)
    \/ \E bound \in BOOLEAN, err \in ServiceErrors : checkbyusername(bound, err)
    \/ \E bound \in BOOLEAN, err \in ServiceErrors : patchPermissions(bound, err)
    \/ \E md \in Metadata, err \in ServiceErrors, allow \in BOOLEAN :
          grpcCheck(md, err, allow)

SpecTransport == InitTransport /\ [][NextTransport]_vars

\* The users the requests of role Create and Update name where one exists
\* and one does not.
RoleRequestUsers == {"alice", "mallory"}

NoUpdate == upd.role = ""

NoPatch == patch.pc = "idle"

NoCreate == \A c \in Callers : crt[c].pc = "idle"

InitRole == InitUpdate

\* One client creates roles, one call after the other, and then applies one
\* Update, which it may apply again.
NextRole ==
    \/ \E req \in CreateRoleRequest(RoleRequestUsers, MaxLen) :
          NoUpdate /\ CreateStart("c1", req)
    \/ CreateCheckIdentifier("c1")
    \/ CreateCheckUsers("c1")
    \/ CreateWrite("c1")
    \/ \E id \in RoleIds,
          req \in UpdateRoleRequest(RoleRequestUsers, MaxRaceLen) :
          /\ InFlight = {}
          /\ NoUpdate \/ (upd.role = id /\ upd.req = req)
          /\ Update(id, req)

SpecRole == InitRole /\ [][NextRole]_vars

InitRoleRace == InitCache

\* The clients call Create concurrently.
NextRoleRace ==
    \/ \E c \in Callers, req \in CreateRoleRequest(RaceUsers, MaxRaceLen) :
          CreateStart(c, req)
    \/ \E c \in Callers : CreateCheckIdentifier(c)
    \/ \E c \in Callers : CreateCheckUsers(c)
    \/ \E c \in Callers : CreateWrite(c)

SpecRoleRace == InitRoleRace /\ [][NextRoleRace]_vars

\* No call fails, or the calls of one kind do.
Faults == {{}} \cup {{call} : call \in StoreCalls}

InitFault == InitCache

\* The store starts and stops failing while one client calls Create, or
\* Update, or PatchPermission; the three write to different collections.
NextFault ==
    \/ \E f \in Faults : StoreFault(f)
    \/ \E req \in CreateRoleRequest(RaceUsers, MaxRaceLen) :
          NoUpdate /\ NoPatch /\ CreateStart("c1", req)
    \/ CreateCheckIdentifier("c1")
    \/ CreateCheckUsers("c1")
    \/ CreateWrite("c1")
    \/ \E id \in Roles, req \in UpdateRoleRequest(RaceUsers, MaxRaceLen) :
          NoCreate /\ NoPatch /\ Update(id, req)
    \/ \E r \in Roles,
          req \in PatchRolePermissionRequest(actions[Acme], MaxRaceLen) :
          NoCreate /\ NoUpdate /\ PatchStart(r, req)
    \/ PatchValidate
    \/ PatchWrite

SpecFault == InitFault /\ [][NextFault]_vars

InitTuple == InitCache

NextTuple ==
    \/ \E s \in ExistingUsers, p \in Permission : CreateTuple(s, p)
    \/ \E bound \in BOOLEAN, s \in ExistingUsers, p \in Permission :
          check(bound, s, p)
    \/ \E bound \in BOOLEAN, s \in ExistingUsers, p \in Permission :
          delete(bound, s, p)

SpecTuple == InitTuple /\ [][NextTuple]_vars

InitGroup == InitCache

\* A client applies one patch to a group and may apply the same patch again;
\* groups are deleted at any time, under either tenant.
NextGroup ==
    \/ \E g \in GroupIds, groupPatch \in GroupPatchRequest :
          /\ ~pgr.called \/ (pgr.group_id = g /\ pgr.req = groupPatch)
          /\ PatchGroup(g, groupPatch)
    \/ \E t \in Orgs, g \in GroupIds : DeleteGroup(t, g)

SpecGroup == InitGroup /\ [][NextGroup]_vars

(***************************************************************************)
(* Claims about PatchPermission, under SpecPatch.                          *)
(***************************************************************************)
Min(S) == CHOOSE k \in S : \A j \in S : k <= j

\* The places of req.AddedPermission that name no declared pair.
Offending(req) ==
    {k \in 1..Len(req.AddedPermission) :
        ~CheckResourceActionExists(Acme, req.AddedPermission[k].resource,
                                   req.AddedPermission[k].action)}

\* C1: when a PatchPermission call that adds nothing returns success, the
\* role holds none of the permissions the call asked to remove.
C1_RemovalsApplied ==
    (patch.pc = "done" /\ patch.err = "nil" /\ patch.req.AddedPermission = <<>>)
        => permissions[patch.role] \cap Range(patch.req.RemovedPermission) = {}

\* C4: a PatchPermission call with an added permission that is not a declared
\* pair ends with InvalidInput naming the first such permission of the
\* request, and leaves the role's permission set as it was before the call.
C4_ValidateBeforeWrite ==
    (patch.pc = "done" /\ Offending(patch.req) # {})
        => /\ patch.err = "InvalidInput"
           /\ patch.errPermission =
                 patch.req.AddedPermission[Min(Offending(patch.req))]
           /\ permissions[patch.role] = patch.before

\* A rejected batch whose first permission is declared and new to the role.
C4_Witness ==
    /\ patch.pc = "done"
    /\ patch.err = "InvalidInput"
    /\ Len(patch.req.AddedPermission) = 2
    /\ Offending(patch.req) = {2}
    /\ patch.req.AddedPermission[1] \notin patch.before

(***************************************************************************)
(* Claims about role Update, under SpecUpdate.                             *)
(***************************************************************************)

C2_RevokedIsDenied ==
    (chk.pc = "done" /\ chk.err = "" /\ hist.afterRevoke)
        => chk.result = "deny"

\* C3: when PatchPermission or Update returns success, no cache entry of a
\* member of the role, or of a user the call named, holds a decision that
\* differs from the decision of the store the call has written.
C3_InvalidateBeforeAcknowledge ==
    /\ (patch.pc = "done" /\ patch.err = "nil") => patch.stale = {}
    /\ upd.err = "nil" => upd.stale = {}

\* C5: a Check of an existing subject and a declared pair, with no mutation
\* between its start and its answer, answers allow exactly when a role the
\* subject holds (directly or through a group) holds the pair or a tuple
\* names the subject and the pair.
C5_CheckIffGranted ==
    (chk.pc = "done" /\ chk.err = "" /\ hist.quiet)
        => (chk.result = "allow" <=> Decision(chk.subject, chk.permission))

(***************************************************************************)
(* Claims about resources, under SpecResource.                             *)
(***************************************************************************)

\* C6: whenever no PatchPermission and no resource Delete is in flight, every
\* permission of every role names an action declared on an existing resource
\* of the organization.
C6_PermissionsDeclared ==
    (patch.pc \in {"idle", "done"} /\ del.pc \in {"idle", "done"})
        => \A r \in Roles : \A p \in permissions[r] :
              CheckResourceActionExists(Acme, p.resource, p.action)

\* C7: resource Create fails with AlreadyExists only when the organization of
\* the call already holds a resource of that key.
C7_CreateScopedByOrg == res.err = "AlreadyExists" => res.existed

(***************************************************************************)
(* Claims about the handlers, under SpecTransport.                         *)
(***************************************************************************)

\* C8: a gRPC Check whose metadata holds no API_KEY is answered with the
\* error Unauthorized, without a panic and without a call of service.Check.
C8_MissingKeyUnauthorized ==
    grpc.md = "nokey"
        => /\ grpc.outcome = "error"
           /\ grpc.err = "Unauthorized"
           /\ ~grpc.called

\* C9: the response of patchPermissions to a bound request carries the
\* status of the service's error: 400 for InvalidInput, 403 for Forbidden,
\* 500 for any other error, and 200 only when the service returned none.
C9_PatchErrorsReported ==
    (http.handler = "patchPermissions" /\ http.bound)
        => /\ http.err = "InvalidInput" => http.status = 400
           /\ http.err = "Forbidden" => http.status = 403
           /\ http.err \notin {"nil", "InvalidInput", "Forbidden"}
                 => http.status = 500
           /\ http.status = 200 => http.err = "nil"

(***************************************************************************)
(* Claims about role Create and Update, under SpecRole, SpecFault and      *)
(* SpecRoleRace.                                                           *)
(***************************************************************************)
\* The request names a user that does not exist in the organization.
NamesMissingUser(users) == ~(Range(users) \subseteq ExistingUsers)

\* C11 as stated: a Create or an Update whose request names a user that does
\* not exist ends with InvalidInput, and the role documents and the role's
\* users are as they were before the call.
C11_MissingUserInvalidInput ==
    /\ \A c \in Callers :
          (crt[c].pc = "done" /\ NamesMissingUser(crt[c].req.Users))
             => crt[c].err = "InvalidInput" /\ roleDocs = crt[c].before
    /\ (upd.role # ""
          /\ NamesMissingUser(upd.req.AddedUsers \o upd.req.RemovedUser))
          => /\ upd.err = "InvalidInput"
             /\ upd.role \in Roles => roleUsers[upd.role] = upd.before

\* C11, amended: a Create or an Update whose request names a user that does
\* not exist fails and writes nothing. Create fails with AlreadyExists when
\* its identifier is taken and with InvalidInput otherwise; Update fails
\* with NotFound when its role does not exist and with InvalidInput
\* otherwise.
C11_MissingUserRefused ==
    /\ \A c \in Callers :
          (crt[c].pc = "done" /\ NamesMissingUser(crt[c].req.Users))
             => /\ crt[c].err = IF crt[c].req.Identifier # "" /\ crt[c].taken
                                THEN "AlreadyExists" ELSE "InvalidInput"
                /\ roleDocs = crt[c].before
    /\ (upd.role # ""
          /\ NamesMissingUser(upd.req.AddedUsers \o upd.req.RemovedUser))
          => /\ upd.err = IF upd.role \in Roles THEN "InvalidInput"
                          ELSE "NotFound"
             /\ upd.role \in Roles => roleUsers[upd.role] = upd.before

\* A Create of a free identifier and an Update of an existing role, both
\* refused for a missing user that follows an existing one.
C11_Witness ==
    /\ crt["c1"].pc = "done"
    /\ crt["c1"].err = "InvalidInput"
    /\ crt["c1"].req = [Identifier |-> "ops", Users |-> <<"alice", "mallory">>]
    /\ upd.role = "finance"
    /\ upd.err = "InvalidInput"
    /\ upd.req = [AddedUsers |-> <<"alice">>, RemovedUser |-> <<"mallory">>]
    /\ "alice" \notin upd.before

\* C13: a Create, an Update or a PatchPermission that met a failing
\* existence check ends with an internal error.
C13_StoreFailureSurfaced ==
    /\ \A c \in Callers :
          (crt[c].pc = "done" /\ crt[c].faulted) => crt[c].err = "Internal"
    /\ upd.faulted => upd.err = "Internal"
    /\ (patch.pc = "done" /\ patch.faulted) => patch.err = "Internal"

\* C17: no two roles of the organization carry the same identifier.
C17_IdentifierUnique ==
    \A i \in Identifiers :
        Cardinality(DocsOf(i)) + (IF i \in Roles THEN 1 ELSE 0) <= 1

(***************************************************************************)
(* Claims about tuples, under SpecTuple.                                   *)
(***************************************************************************)

TenantUsers == ExistingUsers \cup GlobexUsers

\* The users a patch names.
NamedIn(groupPatch) ==
    UNION {Range(groupPatch.Operations[k].Users) :
              k \in 1..Len(groupPatch.Operations)}

\* The members after the operations are applied to a set of members, one
\* user after the other.
RECURSIVE OneAfterAnother(_, _)
OneAfterAnother(members, operations) ==
    IF operations = <<>>
    THEN members
    ELSE LET op == Head(operations)
         IN  OneAfterAnother(IF op.Operation = "add"
                             THEN members \cup Range(op.Users)
                             ELSE members \ Range(op.Users),
                             Tail(operations))

\* C14: a PatchGroup that names a user of no tenant fails and leaves the
\* rows of the group as they were, and no row of group_user holds such a
\* user.
C14_PatchGroupValidatesUsers ==
    /\ (pgr.called /\ ~(NamedIn(pgr.req) \subseteq TenantUsers))
          => /\ pgr.err # "nil"
             /\ {u \in SqlUserIds : pgr.after[u] > 0} = pgr.before
    /\ \A g \in GroupIds, u \in SqlUserIds \ TenantUsers :
          group_user[<<g, u>>] = 0

\* C15: a DeleteGroup under a tenant that does not hold the group, while
\* another tenant does, leaves the rows of the group in group_user and the
\* rows of tenant_group as they were.
C15_DeleteGroupFrame ==
    (/\ dgr.called
     /\ [tenant_id |-> dgr.tenant_id, group_id |-> dgr.id]
           \notin dgr.beforeGroups
     /\ \E t \in Orgs : [tenant_id |-> t, group_id |-> dgr.id]
                            \in dgr.beforeGroups)
        => /\ dgr.afterUsers = dgr.beforeUsers
           /\ dgr.afterGroups = dgr.beforeGroups

\* C16: after a PatchGroup the members of the group are the members before
\* it with the operations applied one after the other, and no user has two
\* rows in the group.
C16_PatchGroupSequential ==
    pgr.called
        => /\ {u \in SqlUserIds : pgr.after[u] > 0}
                 = OneAfterAnother(pgr.before, pgr.req.Operations)
           /\ \A u \in SqlUserIds : pgr.after[u] <= 1

=============================================================================
